---- MODULE Spec2Model ----
(***************************************************************************)
(* Model of script.js: the floating-icon physics simulation.               *)
(*                                                                         *)
(* Numbers.  The program computes in IEEE doubles.  The model computes in  *)
(* fixed point: a length, a velocity, a time or a dt is an integer count   *)
(* of 1/SCALE units (pixels, pixels per frame, milliseconds, frames), and  *)
(* every product or quotient is rounded to the nearest unit, ties away     *)
(* from zero, so that -(a*b) = (-a)*b as in IEEE arithmetic.  The literal  *)
(* constants 0.4, 0.6, 0.98 and 16.7 are kept as exact fractions.          *)
(***************************************************************************)
EXTENDS Integers, Sequences, FiniteSets, TLC

\* ------------------------------------------------------------------ bounds
\* Fixed-point resolution: units per pixel / per millisecond / per frame.
SCALE == 100
\* Number of elements matched by querySelectorAll('.icon').
NumIcons == 2
\* Number of events (pointer events, frames, resizes) in one behaviour of Spec.
MaxEvents == 4

\* ------------------------------------------------------- program constants
gravityNum == 4
gravityDen == 10
bounceNum == 6
bounceDen == 10
frictionNum == 98
frictionDen == 100
\* 16.7 as 167/10
frameMsNum == 167
frameMsDen == 10
\* rect = { width: 80, height: 80 }
rectWidth == 80
rectHeight == 80
\* startY = -Math.random() * 200 - rect.height
startYSpan == 200

\* The value null of lastTimestamp and of activeBody.
Null == 0 - 1

\* -------------------------------------------------------------- arithmetic
Abs(a) == IF a < 0 THEN 0 - a ELSE a

Sign(a) == IF a < 0 THEN 0 - 1 ELSE 1

\* a * num / den rounded to the nearest integer, ties away from zero (den > 0).
MulFrac(a, num, den) ==
  Sign(a * num) * ((2 * Abs(a * num) + den) \div (2 * den))

\* The product of two fixed-point numbers.
Mul(a, b) == MulFrac(a, b, SCALE)

\* n pixels (or n milliseconds) as a fixed-point number.
Px(n) == n * SCALE

\* ------------------------------------------------------------ environment
Bodies == 1 .. NumIcons

\* Pointer positions (clientX, clientY) the input devices report, in pixels.
PointerPositions == { <<10, 10>>, <<15, 12>>, <<25, 20>> }

\* Pointer positions of the pointer-down events.
DownPositions == { <<10, 10>>, <<25, 20>> }

\* Viewport sizes (innerWidth, innerHeight) in pixels; the second one is
\* exactly as tall as a body and the last one is smaller than a body.
ViewportSizes == { <<300, 200>>, <<100, 80>>, <<60, 50>> }

\* Time between two frames, in tenths of a millisecond.
FrameDeltas == { 0, 167 }

\* Timestamp of the first frame, in tenths of a millisecond.
FirstTimestamps == { 0, 5000 }

\* Math.random(): the sequences of values it may return, in hundredths, one
\* sequence per seed of the generator; init takes three values per icon
\* (startX, startY, vx), and a sequence is read cyclically.
RandomStreams ==
  { << 0, 0, 0,  75, 50, 90,  40, 99, 50,  99, 25, 10 >>,
    << 75, 50, 90,  99, 25, 50,  0, 0, 0,  40, 99, 60 >> }

\* The k-th value Math.random() returns on stream.
Random(stream, k) == stream[((k - 1) % Len(stream)) + 1]

\* A number of hundredths as a fixed-point number.
Hundredths(n) == MulFrac(n, SCALE, 100)

\* A number of tenths as a fixed-point number.
Tenths(n) == MulFrac(n, SCALE, 10)

VARIABLES
  bodies,         \* the array bodies: body id -> body record
  elTransform,    \* body id -> the translation written to el.style.transform
  lastTimestamp,  \* Null or the timestamp of the previous frame
  activeBody,     \* Null or the id of the body the handlers act on
  listeners,      \* the (event type, handler) pairs registered on document
  innerWidth,     \* window.innerWidth
  innerHeight,    \* window.innerHeight
  rafPending,     \* number of frame callbacks requested and not yet run
  fault,          \* TRUE once a handler has thrown
  lastOp,         \* history: the last event and what it was given
  hits,           \* history: body id -> the branches of the last step that fired
  samples,        \* history: body id -> the last two pointer samples of its drag
  nEvents         \* history: number of events so far

vars == << bodies, elTransform, lastTimestamp, activeBody, listeners,
           innerWidth, innerHeight, rafPending, fault, lastOp, hits, samples,
           nEvents >>

DragListeners ==
  { <<"mousemove", "doDrag">>, <<"touchmove", "doDrag">>,
    <<"mouseup", "endDrag">>, <<"touchend", "endDrag">> }

NoHits == [left |-> FALSE, right |-> FALSE, top |-> FALSE, bottom |-> FALSE]

\* ------------------------------------------------------------------- init
\* The body init creates from three values of Math.random().
NewBody(rx, ry, rv, width) ==
  LET startX == Mul(rx, Px(width) - Px(rectWidth))
      startY == 0 - Mul(ry, Px(startYSpan)) - Px(rectHeight)
  IN [ x |-> startX,
       y |-> startY,
       vx |-> Mul(rv - Hundredths(50), Px(1)),
       vy |-> 0,
       width |-> Px(rectWidth),
       height |-> Px(rectHeight),
       dragging |-> FALSE,
       dragOffsetX |-> 0,
       dragOffsetY |-> 0,
       lastPointerPos |-> [x |-> 0, y |-> 0],
       vxPointer |-> 0,
       vyPointer |-> 0 ]

Init ==
  /\ \E size \in ViewportSizes :
       /\ innerWidth = size[1]
       /\ innerHeight = size[2]
  /\ \E stream \in RandomStreams :
       bodies = [b \in Bodies |->
                   NewBody(Hundredths(Random(stream, 3 * b - 2)),
                           Hundredths(Random(stream, 3 * b - 1)),
                           Hundredths(Random(stream, 3 * b)), innerWidth)]
  /\ elTransform = [b \in Bodies |-> <<bodies[b].x, bodies[b].y>>]
  /\ lastTimestamp = Null
  /\ activeBody = Null
  /\ listeners = {}
  /\ rafPending = 1
  /\ fault = FALSE
  /\ lastOp = [op |-> "init", body |-> Null, active |-> Null, dt |-> 0,
               first |-> FALSE]
  /\ hits = [b \in Bodies |-> NoHits]
  /\ samples = [b \in Bodies |-> << >>]
  /\ nEvents = 0

\* ----------------------------------------------------------------- events
\* A mouse event at pixel position p: it has no touches list.
MouseEvent(p) ==
  [touches |-> << >>, clientX |-> Px(p[1]), clientY |-> Px(p[2])]

\* A touch event whose touches list holds the pixel positions ps, the oldest
\* touch first; clientX and clientY are undefined on it.
TouchEvent(ps) ==
  [touches |-> [i \in 1 .. Len(ps) |->
                  [clientX |-> Px(ps[i][1]), clientY |-> Px(ps[i][2])]],
   clientX |-> Null, clientY |-> Null]

\* The touches lists of a touchstart or touchmove: one active touch, or two
\* with the second one at SecondTouch.
SecondTouch == <<15, 12>>

TouchLists ==
  { <<p>> : p \in PointerPositions } \cup { <<p, SecondTouch>> : p \in PointerPositions }

getPointerPos(e) ==
  IF Len(e.touches) > 0
    THEN [x |-> e.touches[1].clientX, y |-> e.touches[1].clientY]
    ELSE [x |-> e.clientX, y |-> e.clientY]

\* ------------------------------------------------------- drag controller
\* Mutant of startDrag: the body that was active is released first.
startDragRelease(e, b) ==
  LET body == bodies[b]
      pos == getPointerPos(e)
      grabbed == [body EXCEPT !.dragging = TRUE,
                              !.dragOffsetX = pos.x - body.x,
                              !.dragOffsetY = pos.y - body.y,
                              !.vx = 0,
                              !.vy = 0,
                              !.vxPointer = 0,
                              !.vyPointer = 0,
                              !.lastPointerPos = pos]
  IN /\ bodies' = [a \in Bodies |->
                     IF a = b THEN grabbed
                     ELSE IF a = activeBody
                       THEN [bodies[a] EXCEPT !.dragging = FALSE]
                       ELSE bodies[a]]
     /\ listeners' = listeners \cup DragListeners
     /\ activeBody' = b
     /\ UNCHANGED << elTransform, lastTimestamp, rafPending, fault >>

startDrag(e, b) ==
  LET body == bodies[b]
      pos == getPointerPos(e)
  IN /\ bodies' = [bodies EXCEPT ![b] =
                     [body EXCEPT !.dragging = TRUE,
                                  !.dragOffsetX = pos.x - body.x,
                                  !.dragOffsetY = pos.y - body.y,
                                  !.vx = 0,
                                  !.vy = 0,
                                  !.vxPointer = 0,
                                  !.vyPointer = 0,
                                  !.lastPointerPos = pos]]
     /\ listeners' = listeners \cup DragListeners
     /\ activeBody' = b
     /\ UNCHANGED << elTransform, lastTimestamp, rafPending, fault >>

\* Mutant of doDrag: the test of activeBody is missing, and reading
\* body.dragging of null throws.
doDragNoGuard(e) ==
  IF activeBody = Null
    THEN /\ fault' = TRUE
         /\ UNCHANGED << bodies, elTransform, lastTimestamp, activeBody,
                         listeners, rafPending >>
    ELSE LET body == bodies[activeBody]
             pos == getPointerPos(e)
         IN /\ bodies' =
                 IF body.dragging
                   THEN [bodies EXCEPT ![activeBody] =
                           [body EXCEPT !.x = pos.x - body.dragOffsetX,
                                        !.y = pos.y - body.dragOffsetY,
                                        !.vxPointer = pos.x - body.lastPointerPos.x,
                                        !.vyPointer = pos.y - body.lastPointerPos.y,
                                        !.lastPointerPos = pos]]
                   ELSE bodies
            /\ UNCHANGED << elTransform, lastTimestamp, activeBody, listeners,
                            rafPending, fault >>

\* Mutant of doDrag: lastPointerPos is not updated, so the pointer velocity
\* is measured from the pointer-down position.
doDragStale(e) ==
  IF activeBody = Null
    THEN UNCHANGED << bodies, elTransform, lastTimestamp, activeBody,
                      listeners, rafPending, fault >>
    ELSE LET body == bodies[activeBody]
             pos == getPointerPos(e)
         IN /\ bodies' =
                 IF body.dragging
                   THEN [bodies EXCEPT ![activeBody] =
                           [body EXCEPT !.x = pos.x - body.dragOffsetX,
                                        !.y = pos.y - body.dragOffsetY,
                                        !.vxPointer = pos.x - body.lastPointerPos.x,
                                        !.vyPointer = pos.y - body.lastPointerPos.y]]
                   ELSE bodies
            /\ UNCHANGED << elTransform, lastTimestamp, activeBody, listeners,
                            rafPending, fault >>

\* Mutant of doDrag: every body that is dragging follows the pointer.
doDragAll(e) ==
  IF activeBody = Null
    THEN UNCHANGED << bodies, elTransform, lastTimestamp, activeBody,
                      listeners, rafPending, fault >>
    ELSE LET pos == getPointerPos(e)
         IN /\ bodies' =
                 [b \in Bodies |->
                    IF bodies[b].dragging
                      THEN [bodies[b] EXCEPT
                              !.x = pos.x - bodies[b].dragOffsetX,
                              !.y = pos.y - bodies[b].dragOffsetY,
                              !.vxPointer = pos.x - bodies[b].lastPointerPos.x,
                              !.vyPointer = pos.y - bodies[b].lastPointerPos.y,
                              !.lastPointerPos = pos]
                      ELSE bodies[b]]
            /\ UNCHANGED << elTransform, lastTimestamp, activeBody, listeners,
                            rafPending, fault >>

doDrag(e) ==
  IF activeBody = Null
    THEN UNCHANGED << bodies, elTransform, lastTimestamp, activeBody,
                      listeners, rafPending, fault >>
    ELSE LET body == bodies[activeBody]
             pos == getPointerPos(e)
         IN /\ bodies' =
                 IF body.dragging
                   THEN [bodies EXCEPT ![activeBody] =
                           [body EXCEPT !.x = pos.x - body.dragOffsetX,
                                        !.y = pos.y - body.dragOffsetY,
                                        !.vxPointer = pos.x - body.lastPointerPos.x,
                                        !.vyPointer = pos.y - body.lastPointerPos.y,
                                        !.lastPointerPos = pos]]
                   ELSE bodies
            /\ UNCHANGED << elTransform, lastTimestamp, activeBody, listeners,
                            rafPending, fault >>

\* Mutant of endDrag: only the mouse listeners are removed.
endDragMouseOnly(e) ==
  IF activeBody = Null
    THEN UNCHANGED << bodies, elTransform, lastTimestamp, activeBody,
                      listeners, rafPending, fault >>
    ELSE LET body == bodies[activeBody]
         IN IF body.dragging
              THEN /\ bodies' = [bodies EXCEPT ![activeBody] =
                                   [body EXCEPT !.dragging = FALSE,
                                                !.vx = body.vxPointer,
                                                !.vy = body.vyPointer]]
                   /\ activeBody' = Null
                   /\ listeners' = listeners \ { <<"mousemove", "doDrag">>,
                                                 <<"mouseup", "endDrag">> }
                   /\ UNCHANGED << elTransform, lastTimestamp, rafPending, fault >>
              ELSE UNCHANGED << bodies, elTransform, lastTimestamp, activeBody,
                                listeners, rafPending, fault >>

endDrag(e) ==
  IF activeBody = Null
    THEN UNCHANGED << bodies, elTransform, lastTimestamp, activeBody,
                      listeners, rafPending, fault >>
    ELSE LET body == bodies[activeBody]
         IN IF body.dragging
              THEN /\ bodies' = [bodies EXCEPT ![activeBody] =
                                   [body EXCEPT !.dragging = FALSE,
                                                !.vx = body.vxPointer,
                                                !.vy = body.vyPointer]]
                   /\ activeBody' = Null
                   /\ listeners' = listeners \ DragListeners
                   /\ UNCHANGED << elTransform, lastTimestamp, rafPending, fault >>
              ELSE UNCHANGED << bodies, elTransform, lastTimestamp, activeBody,
                                listeners, rafPending, fault >>

\* ------------------------------------------------------------- integrator
\* dt = (timestamp - lastTimestamp) / 16.7, after line 115 has replaced a
\* falsy lastTimestamp (null or 0) by timestamp.
frameDt(timestamp) ==
  LET last == IF lastTimestamp = Null \/ lastTimestamp = 0
                THEN timestamp ELSE lastTimestamp
  IN MulFrac(timestamp - last, frameMsDen, frameMsNum)

\* gravity * dt
gravityStep(dt) == MulFrac(dt, gravityNum, gravityDen)

\* Mutant of reflect: every bounce applies the friction factor too.
reflectWithFriction(v) ==
  MulFrac(MulFrac(0 - v, bounceNum, bounceDen), frictionNum, frictionDen)

\* Mutant of reflect: the sign is not changed.
reflectNoFlip(v) == MulFrac(v, bounceNum, bounceDen)

\* -v * bounceFactor
reflect(v) == MulFrac(0 - v, bounceNum, bounceDen)

\* v * friction
applyFriction(v) == MulFrac(v, frictionNum, frictionDen)

\* maxX - body.width: the x a body is given at the right edge (mutant: the
\* width is forgotten).
rightClampNoWidth(body, maxX) == maxX

rightClamp(body, maxX) == maxX - body.width

\* Mutant of bottomClamp: a body taller than the viewport is put at y = 0.
bottomClampNonNegative(body, maxY) ==
  IF maxY - body.height < 0 THEN 0 ELSE maxY - body.height

\* maxY - body.height: the y a body is given at the bottom edge.
bottomClamp(body, maxY) == maxY - body.height

\* Mutant of stepTrace: the position is integrated before gravity is added,
\* so y moves by the old vy.
stepTracePositionFirst(body, dt, maxX, maxY) ==
  LET x1 == body.x + Mul(body.vx, dt)
      y1 == body.y + Mul(body.vy, dt)
      vy1 == body.vy + gravityStep(dt)
      left == x1 < 0
      right == ~left /\ x1 + body.width > maxX
      x2 == IF left THEN 0 ELSE IF right THEN rightClamp(body, maxX) ELSE x1
      vx2 == IF left \/ right THEN reflect(body.vx) ELSE body.vx
      top == y1 < 0
      y2 == IF top THEN 0 ELSE y1
      vy2 == IF top THEN reflect(vy1) ELSE vy1
      bottom == y2 + body.height > maxY
      y3 == IF bottom THEN bottomClamp(body, maxY) ELSE y2
      vy3 == IF bottom THEN reflect(vy2) ELSE vy2
      vx3 == IF bottom THEN applyFriction(vx2) ELSE vx2
  IN [ body |-> [body EXCEPT !.x = x2, !.y = y3, !.vx = vx3, !.vy = vy3],
       hits |-> [left |-> left, right |-> right, top |-> top,
                 bottom |-> bottom] ]

\* One pass of the forEach body over a body that is not dragging: the new
\* body record and the branches that fired.
stepTrace(body, dt, maxX, maxY) ==
  LET vy1 == body.vy + gravityStep(dt)
      x1 == body.x + Mul(body.vx, dt)
      y1 == body.y + Mul(vy1, dt)
      left == x1 < 0
      right == ~left /\ x1 + body.width > maxX
      x2 == IF left THEN 0 ELSE IF right THEN rightClamp(body, maxX) ELSE x1
      vx2 == IF left \/ right THEN reflect(body.vx) ELSE body.vx
      top == y1 < 0
      y2 == IF top THEN 0 ELSE y1
      vy2 == IF top THEN reflect(vy1) ELSE vy1
      bottom == y2 + body.height > maxY
      y3 == IF bottom THEN bottomClamp(body, maxY) ELSE y2
      vy3 == IF bottom THEN reflect(vy2) ELSE vy2
      vx3 == IF bottom THEN applyFriction(vx2) ELSE vx2
  IN [ body |-> [body EXCEPT !.x = x2, !.y = y3, !.vx = vx3, !.vy = vy3],
       hits |-> [left |-> left, right |-> right, top |-> top,
                 bottom |-> bottom] ]

\* Mutant of stepBody: the dragging flag is not tested.
stepBodyAlways(body, dt, maxX, maxY) == stepTrace(body, dt, maxX, maxY).body

\* The body of the forEach callback, without the write of the transform.
stepBody(body, dt, maxX, maxY) ==
  IF ~body.dragging THEN stepTrace(body, dt, maxX, maxY).body ELSE body

\* Mutant of stepWith: the next frame is requested only when there is a body
\* to animate.
stepWithIdleStop(timestamp, kept) ==
  LET dt == frameDt(timestamp)
      maxX == Px(innerWidth)
      maxY == Px(innerHeight)
  IN /\ lastTimestamp' = kept
     /\ bodies' = [b \in DOMAIN bodies |->
                     stepBody(bodies[b], dt, maxX, maxY)]
     /\ elTransform' = [b \in DOMAIN bodies |-> <<bodies'[b].x, bodies'[b].y>>]
     /\ rafPending' = (rafPending - 1)
                        + (IF DOMAIN bodies = {} THEN 0 ELSE 1)
     /\ UNCHANGED << activeBody, listeners, fault >>

\* Mutant of stepWith: the transform is written inside the test of the
\* dragging flag, for the bodies the integrator moves only.
stepWithFreeOnly(timestamp, kept) ==
  LET dt == frameDt(timestamp)
      maxX == Px(innerWidth)
      maxY == Px(innerHeight)
  IN /\ lastTimestamp' = kept
     /\ bodies' = [b \in DOMAIN bodies |->
                     stepBody(bodies[b], dt, maxX, maxY)]
     /\ elTransform' = [b \in DOMAIN bodies |->
                          IF bodies[b].dragging
                            THEN elTransform[b]
                            ELSE <<bodies'[b].x, bodies'[b].y>>]
     /\ rafPending' = (rafPending - 1) + 1
     /\ UNCHANGED << activeBody, listeners, fault >>

\* The whole of step for the timestamp it is called with; kept is the value
\* lastTimestamp holds afterwards (the timestamp itself, see step).
stepWith(timestamp, kept) ==
  LET dt == frameDt(timestamp)
      maxX == Px(innerWidth)
      maxY == Px(innerHeight)
  IN /\ lastTimestamp' = kept
     /\ bodies' = [b \in DOMAIN bodies |->
                     stepBody(bodies[b], dt, maxX, maxY)]
     /\ elTransform' = [b \in DOMAIN bodies |-> <<bodies'[b].x, bodies'[b].y>>]
     /\ rafPending' = (rafPending - 1) + 1
     /\ UNCHANGED << activeBody, listeners, fault >>

step(timestamp) == stepWith(timestamp, timestamp)

\* ---------------------------------------------------------------- actions
progVars == << bodies, elTransform, lastTimestamp, activeBody, listeners,
               rafPending, fault >>

\* Every event of a behaviour is counted, and a behaviour holds MaxEvents.
Count ==
  /\ nEvents < MaxEvents
  /\ nEvents' = nEvents + 1

Op(op, b, dt, first) ==
  [op |-> op, body |-> b, active |-> activeBody, dt |-> dt, first |-> first]

\* The last two elements of a sequence.
LastTwo(s) == IF Len(s) > 2 THEN SubSeq(s, Len(s) - 1, Len(s)) ELSE s

\* A pointer-down on the element of body b calls the listener init attached.
PointerDown(e, b) ==
  /\ Count
  /\ startDrag(e, b)
  /\ samples' = [samples EXCEPT ![b] = << getPointerPos(e) >>]
  /\ lastOp' = Op("down", b, 0, FALSE)
  /\ UNCHANGED << innerWidth, innerHeight, hits >>

MouseDown(b) == \E p \in DownPositions : PointerDown(MouseEvent(p), b)

TouchStart(b) ==
  \E ps \in TouchLists :
    /\ ps[1] \in DownPositions
    /\ PointerDown(TouchEvent(ps), b)

\* Whether handler is registered on document for the event type.
Registered(type, handler) == <<type, handler>> \in listeners

\* doDrag runs for the event e; the history records the sample it was given.
CallDoDrag(e) ==
  LET sampled == activeBody # Null /\ bodies[activeBody].dragging
  IN /\ Count
     /\ doDrag(e)
     /\ samples' = IF sampled
                     THEN [samples EXCEPT ![activeBody] =
                             LastTwo(Append(@, getPointerPos(e)))]
                     ELSE samples
     /\ lastOp' = Op("move", activeBody, 0, FALSE)
     /\ UNCHANGED << innerWidth, innerHeight, hits >>

\* endDrag runs for the event e.
CallEndDrag(e) ==
  /\ Count
  /\ endDrag(e)
  /\ lastOp' = Op("up", activeBody, 0, FALSE)
  /\ UNCHANGED << innerWidth, innerHeight, hits, samples >>

\* A pointer-move on the document runs doDrag while it is registered for the
\* event type.
MouseMove ==
  /\ Registered("mousemove", "doDrag")
  /\ \E p \in PointerPositions : CallDoDrag(MouseEvent(p))

TouchMove ==
  /\ Registered("touchmove", "doDrag")
  /\ \E ps \in TouchLists : CallDoDrag(TouchEvent(ps))

\* A pointer-up on the document runs endDrag while it is registered for the
\* event type.
MouseUp ==
  /\ Registered("mouseup", "endDrag")
  /\ \E p \in PointerPositions : CallEndDrag(MouseEvent(p))

TouchEnd ==
  /\ Registered("touchend", "endDrag")
  /\ CallEndDrag(TouchEvent(<< >>))

\* The scheduler runs a requested frame callback with a timestamp that does
\* not decrease.
Frame ==
  /\ Count
  /\ rafPending > 0
  /\ \E timestamp \in
         IF lastTimestamp = Null
           THEN { Tenths(t) : t \in FirstTimestamps }
           ELSE { lastTimestamp + Tenths(d) : d \in FrameDeltas } :
       /\ step(timestamp)
       /\ hits' = [b \in DOMAIN bodies |->
                     IF bodies[b].dragging
                       THEN NoHits
                       ELSE stepTrace(bodies[b], frameDt(timestamp),
                                      Px(innerWidth), Px(innerHeight)).hits]
       /\ lastOp' = Op("step", Null, frameDt(timestamp),
                       lastTimestamp = Null)
  /\ UNCHANGED << innerWidth, innerHeight, samples >>

\* The user resizes the window.
Resize ==
  /\ Count
  /\ \E size \in ViewportSizes :
       /\ << innerWidth, innerHeight >> # size
       /\ innerWidth' = size[1]
       /\ innerHeight' = size[2]
  /\ lastOp' = Op("resize", Null, 0, FALSE)
  /\ UNCHANGED << progVars, hits, samples >>

Next ==
  \/ \E b \in Bodies : MouseDown(b)
  \/ \E b \in Bodies : TouchStart(b)
  \/ MouseMove
  \/ TouchMove
  \/ MouseUp
  \/ TouchEnd
  \/ Frame
  \/ Resize

Spec == Init /\ [][Next]_vars

\* ------------------------------------------------------- free fall, forever
\* Frame intervals of a display with a constant refresh rate, in tenths of a
\* millisecond.
FallDeltas == { 167, 334 }

\* The timestamp every frame of SpecFall leaves in lastTimestamp.
Epoch == Tenths(5000)

\* A frame of a run without pointer events and resizes, at a constant frame
\* interval.  step reads timestamps only through the test !lastTimestamp and
\* the difference timestamp - lastTimestamp; to keep the run finite-state,
\* time is measured from an origin that moves with the frames, so that the
\* previous frame is always at Epoch (which is not 0): both readings are the
\* ones an absolute clock gives.
FallFrame ==
  /\ rafPending > 0
  /\ \E d \in FallDeltas :
       LET timestamp == IF lastTimestamp = Null
                          THEN Epoch ELSE lastTimestamp + Tenths(d)
       IN /\ \/ lastOp.op = "init"
             \/ lastOp.first
             \/ lastOp.dt = frameDt(timestamp)
          /\ stepWith(timestamp, Epoch)
          /\ hits' = [b \in DOMAIN bodies |->
                        IF bodies[b].dragging
                          THEN NoHits
                          ELSE stepTrace(bodies[b], frameDt(timestamp),
                                         Px(innerWidth), Px(innerHeight)).hits]
          /\ lastOp' = Op("step", Null, frameDt(timestamp),
                          lastTimestamp = Null)
  /\ UNCHANGED << innerWidth, innerHeight, samples, nEvents >>

\* The state after init of a run that is left to fall.  The vertical motion
\* of a body (y, vy) reads neither x nor vx, and the horizontal velocity is
\* drawn as 0 (Math.random() = 0.5) so that the run's bodies come to rest.
FallStreams ==
  { << 0, 0, 50,  75, 50, 50,  40, 99, 50,  99, 25, 50 >>,
    << 75, 50, 50,  99, 25, 50,  0, 0, 50,  40, 99, 50 >> }

InitFall ==
  /\ \E size \in ViewportSizes :
       /\ innerWidth = size[1]
       /\ innerHeight = size[2]
  /\ \E stream \in FallStreams :
       bodies = [b \in Bodies |->
                   NewBody(Hundredths(Random(stream, 3 * b - 2)),
                           Hundredths(Random(stream, 3 * b - 1)),
                           Hundredths(Random(stream, 3 * b)), innerWidth)]
  /\ elTransform = [b \in Bodies |-> <<bodies[b].x, bodies[b].y>>]
  /\ lastTimestamp = Null
  /\ activeBody = Null
  /\ listeners = {}
  /\ rafPending = 1
  /\ fault = FALSE
  /\ lastOp = [op |-> "init", body |-> Null, active |-> Null, dt |-> 0,
               first |-> FALSE]
  /\ hits = [b \in Bodies |-> NoHits]
  /\ samples = [b \in Bodies |-> << >>]
  /\ nEvents = 0

\* requestAnimationFrame keeps a callback pending and the browser runs it.
SpecFall == InitFall /\ [][FallFrame]_vars /\ WF_vars(FallFrame)

\* ------------------------------------------- handlers called on their own
\* doDrag and endDrag are functions of the page's global scope.  In Spec they
\* run only as listeners, and a listener is registered only while activeBody
\* is set; here they are also called while they are not registered, which is
\* the one way to run them with activeBody = null.
StrayDoDrag ==
  /\ ~Registered("mousemove", "doDrag")
  /\ \E p \in PointerPositions : CallDoDrag(MouseEvent(p))

StrayEndDrag ==
  /\ ~Registered("mouseup", "endDrag")
  /\ \E p \in PointerPositions : CallEndDrag(MouseEvent(p))

NextHandlers ==
  \/ Next
  \/ StrayDoDrag
  \/ StrayEndDrag

SpecHandlers == Init /\ [][NextHandlers]_vars

\* -------------------------------------------------------- touch cancelled
\* The browser cancels the touch (a system dialog, a gesture taken over by
\* the browser) and dispatches touchcancel on the document: the handlers
\* registered for that event type run.  startDrag registers endDrag for
\* mouseup and touchend only.
TouchCancel ==
  /\ Count
  /\ IF Registered("touchcancel", "endDrag")
       THEN endDrag(TouchEvent(<< >>))
       ELSE UNCHANGED progVars
  /\ lastOp' = Op("cancel", activeBody, 0, FALSE)
  /\ UNCHANGED << innerWidth, innerHeight, hits, samples >>

NextCancel ==
  \/ Next
  \/ TouchCancel

SpecCancel == Init /\ [][NextCancel]_vars

\* ------------------------------------------------------- a page of no icon
\* The state after init when querySelectorAll('.icon') matches nothing: the
\* forEach of init creates no body, and init requests the first frame.
InitNoIcons ==
  /\ \E size \in ViewportSizes :
       /\ innerWidth = size[1]
       /\ innerHeight = size[2]
  /\ bodies = [b \in {} |-> NewBody(0, 0, 0, innerWidth)]
  /\ elTransform = [b \in DOMAIN bodies |-> <<bodies[b].x, bodies[b].y>>]
  /\ lastTimestamp = Null
  /\ activeBody = Null
  /\ listeners = {}
  /\ rafPending = 1
  /\ fault = FALSE
  /\ lastOp = [op |-> "init", body |-> Null, active |-> Null, dt |-> 0,
               first |-> FALSE]
  /\ hits = [b \in DOMAIN bodies |-> NoHits]
  /\ samples = [b \in DOMAIN bodies |-> << >>]
  /\ nEvents = 0

\* Frames and resizes of the page of no icon: it has no element to press.
FrameNoIcons == DOMAIN bodies = {} /\ Frame

ResizeNoIcons == DOMAIN bodies = {} /\ Resize

NextLoop ==
  \/ DOMAIN bodies # {} /\ Next
  \/ FrameNoIcons
  \/ ResizeNoIcons

\* The page with NumIcons icons and the page with none.
SpecLoop == (Init \/ InitNoIcons) /\ [][NextLoop]_vars

\* ----------------------------------------------------------------- claims
Dragging == { b \in Bodies : bodies[b].dragging }

\* The viewport is at least as large as body b.
ViewportHolds(b) ==
  /\ Px(innerWidth) >= bodies[b].width
  /\ Px(innerHeight) >= bodies[b].height

\* C1: in every reachable state at most one body has dragging = true.
\* (Violated: a pointer-down on a second body sets its flag and leaves the
\* first body's flag set.)
C1_AtMostOneDragging == Cardinality(Dragging) <= 1

\* C2: right after a step, every body that is not dragging lies inside the
\* viewport read in that step, 0 <= x <= viewportWidth - width and
\* 0 <= y <= viewportHeight - height, when that viewport is at least as large
\* as the body.
C2_BoundaryContainment ==
  lastOp.op = "step" =>
    \A b \in Bodies :
      (~bodies[b].dragging /\ ViewportHolds(b)) =>
        /\ 0 <= bodies[b].x
        /\ bodies[b].x <= Px(innerWidth) - bodies[b].width
        /\ 0 <= bodies[b].y
        /\ bodies[b].y <= Px(innerHeight) - bodies[b].height

\* A step with dt > 0 has put back, at the right edge or at the bottom edge,
\* a free body that was beyond it, in a viewport at least as large as the body.
C2_Witness ==
  /\ lastOp.op = "step"
  /\ lastOp.dt > 0
  /\ \E b \in Bodies :
       /\ ~bodies[b].dragging
       /\ ViewportHolds(b)
       /\ hits[b].right
  /\ \E b \in Bodies :
       /\ ~bodies[b].dragging
       /\ ViewportHolds(b)
       /\ hits[b].bottom

C4_DragBypass ==
  [][lastOp'.op = "step" =>
       \A b \in Bodies :
         bodies[b].dragging =>
           /\ bodies'[b].x = bodies[b].x
           /\ bodies'[b].y = bodies[b].y
           /\ bodies'[b].vx = bodies[b].vx
           /\ bodies'[b].vy = bodies[b].vy]_vars

\* A step with dt > 0 has run while a dragging body was left of the viewport.
C4_Witness ==
  /\ lastOp.op = "step"
  /\ lastOp.dt > 0
  /\ \E b \in Bodies :
       /\ bodies[b].dragging
       /\ bodies[b].x < 0

\* The difference between the last two pointer samples of body b's drag,
\* (0, 0) when the drag has had no move.
LastDelta(b) ==
  LET s == samples[b]
      n == Len(s)
  IN IF n >= 2
       THEN [x |-> s[n].x - s[n - 1].x, y |-> s[n].y - s[n - 1].y]
       ELSE [x |-> 0, y |-> 0]

\* C5: when a pointer-up ends a drag, the body's velocity is the difference
\* between the last two pointer samples of that drag (the pointer-down is the
\* first sample), and (0, 0) when the drag had no move; frames between the
\* moves do not change it.
C5_VelocityHandoff ==
  (lastOp.op = "up" /\ lastOp.active # Null) =>
    /\ ~bodies[lastOp.active].dragging
    /\ bodies[lastOp.active].vx = LastDelta(lastOp.active).x
    /\ bodies[lastOp.active].vy = LastDelta(lastOp.active).y

\* A drag sampled at (15,12) and then (25,20), after at least one earlier
\* sample, has ended with the launch velocity (10, 8).
C5_Witness ==
  /\ lastOp.op = "up"
  /\ lastOp.active # Null
  /\ samples[lastOp.active] =
       << [x |-> Px(15), y |-> Px(12)], [x |-> Px(25), y |-> Px(20)] >>
  /\ bodies[lastOp.active].vx = Px(10)
  /\ bodies[lastOp.active].vy = Px(8)

\* C6: after pointer-downs, possibly on several bodies, followed by a
\* pointer-up, no body has dragging = true.  (Violated: the pointer-up frees
\* only the body activeBody refers to.)
C6_AllFreeAfterUp == lastOp.op = "up" => Dragging = {}

\* C7: a pointer-down on body B leaves every field of the record of every
\* other body A that is dragging unchanged.
C7_SecondDownKeepsFirst ==
  [][lastOp'.op = "down" =>
       \A a \in Bodies :
         (a # lastOp'.body /\ bodies[a].dragging) =>
           bodies'[a] = bodies[a]]_vars

\* A pointer-down has hit one body while another one was dragging and had
\* already been moved.
C7_Witness ==
  /\ lastOp.op = "down"
  /\ lastOp.active # Null
  /\ lastOp.active # lastOp.body
  /\ bodies[lastOp.active].dragging
  /\ bodies[lastOp.active].vxPointer # 0

\* vx of body b after the horizontal collision of a step, as the claim has it.
C8_AfterWalls(b) ==
  IF hits'[b].left \/ hits'[b].right
    THEN MulFrac(0 - bodies[b].vx, bounceNum, bounceDen)
    ELSE bodies[b].vx

\* C8: in a step on a free body, vx is multiplied by FRICTION if and only if
\* the bottom-edge branch fires; a step that hits only a side wall gives
\* vx' = -vx * BOUNCE with no friction factor and vy' = vy + GRAVITY * dt.
C8_FrictionIsolation ==
  [][lastOp'.op = "step" =>
       \A b \in Bodies :
         ~bodies[b].dragging =>
           /\ hits'[b].bottom =>
                bodies'[b].vx =
                  MulFrac(C8_AfterWalls(b), frictionNum, frictionDen)
           /\ ~hits'[b].bottom => bodies'[b].vx = C8_AfterWalls(b)
           /\ ((hits'[b].left \/ hits'[b].right)
                 /\ ~hits'[b].top /\ ~hits'[b].bottom) =>
                /\ bodies'[b].vx = MulFrac(0 - bodies[b].vx, bounceNum, bounceDen)
                /\ bodies'[b].vy =
                     bodies[b].vy + MulFrac(lastOp'.dt, gravityNum, gravityDen)]_vars

\* A step with dt > 0 has bounced a moving free body off the left wall and
\* off no other edge.
C8_Witness ==
  /\ lastOp.op = "step"
  /\ lastOp.dt > 0
  /\ \E b \in Bodies :
       /\ ~bodies[b].dragging
       /\ hits[b].left
       /\ ~hits[b].top
       /\ ~hits[b].bottom
       /\ bodies[b].vx # 0
       /\ bodies[b].vy # 0

\* A speed close to 0: 0.05 px per frame.
C9_Eps == Hundredths(5)

C10_NoTargetNoOp ==
  [][((lastOp'.op = "move" \/ lastOp'.op = "up") /\ activeBody = Null) =>
       /\ bodies' = bodies
       /\ listeners' = listeners
       /\ activeBody' = activeBody
       /\ elTransform' = elTransform
       /\ fault' = FALSE]_vars

\* doDrag has run with activeBody = null, after a drag had taken place and
\* while a body was still flagged dragging.
C10_Witness ==
  /\ lastOp.op = "move"
  /\ lastOp.active = Null
  /\ activeBody = Null
  /\ \E b \in Bodies : bodies[b].dragging

\* C11: the document's move and up listeners are registered only while a
\* drag is active: in every state in which one of them is registered some
\* body has dragging = true, and right after a pointer-up that has ended a
\* drag none of them is registered, however many pointer-downs came before.
C11_ListenersOnlyWhileDragging ==
  /\ (listeners \cap DragListeners # {}) => Dragging # {}
  /\ (lastOp.op = "up" /\ lastOp.active # Null
        /\ ~bodies[lastOp.active].dragging) =>
       listeners \cap DragListeners = {}

\* A pointer-up has ended the drag of one body after a pointer-down on each
\* of two bodies (the other body is still flagged), and no listener is left.
C11_Witness ==
  /\ lastOp.op = "up"
  /\ lastOp.active # Null
  /\ ~bodies[lastOp.active].dragging
  /\ \E b \in Bodies : b # lastOp.active /\ bodies[b].dragging
  /\ listeners = {}

\* C12: a touch cancel delivered while a body is dragging ends the drag as a
\* pointer-up does: right after it the body's dragging flag is false, its
\* velocity is its pointer velocity and none of the document's drag listeners
\* is registered.  (Violated: no listener is registered for touchcancel, and
\* the event changes nothing.)
C12_CancelEndsDrag ==
  (lastOp.op = "cancel" /\ lastOp.active # Null) =>
    /\ ~bodies[lastOp.active].dragging
    /\ bodies[lastOp.active].vx = bodies[lastOp.active].vxPointer
    /\ bodies[lastOp.active].vy = bodies[lastOp.active].vyPointer
    /\ listeners \cap DragListeners = {}

\* C13: a step on a body that is not dragging and touches no edge in that
\* step adds gravity first, vy' = vy + GRAVITY * dt, then moves the body by
\* the velocities, x' = x + vx * dt and y' = y + vy' * dt with the vy already
\* updated, and leaves vx unchanged.
C13_VelocityBeforePosition ==
  [][lastOp'.op = "step" =>
       \A b \in Bodies :
         (~bodies[b].dragging /\ hits'[b] = NoHits) =>
           /\ bodies'[b].vy =
                bodies[b].vy + MulFrac(lastOp'.dt, gravityNum, gravityDen)
           /\ bodies'[b].x = bodies[b].x + Mul(bodies[b].vx, lastOp'.dt)
           /\ bodies'[b].y = bodies[b].y + Mul(bodies'[b].vy, lastOp'.dt)
           /\ bodies'[b].vx = bodies[b].vx]_vars

\* A step with dt > 0 has moved a free body that has a horizontal velocity
\* and has touched no edge with it, starting from vy = 0: the body has left
\* y = 0 only because y moved by the new vy.
C13_Witness ==
  /\ lastOp.op = "step"
  /\ lastOp.dt > 0
  /\ \E b \in Bodies :
       /\ ~bodies[b].dragging
       /\ hits[b] = NoHits
       /\ bodies[b].vx # 0
       /\ bodies[b].vy = MulFrac(lastOp.dt, gravityNum, gravityDen)
       /\ bodies[b].y = Mul(bodies[b].vy, lastOp.dt)

\* C14: for non-decreasing frame timestamps, a first timestamp of 0 included,
\* the dt of the first call of step is 0 and the dt of every later call is
\* (timestamp - timestamp of the call before) / 16.7.  (Violated: a previous
\* timestamp of 0 is taken for "no previous timestamp", and the call after a
\* frame at timestamp 0 gets dt = 0 whatever its timestamp.)
C14_DeltaFromPreviousFrame ==
  [][lastOp'.op = "step" =>
       lastOp'.dt =
         IF lastTimestamp = Null
           THEN 0
           ELSE MulFrac(lastTimestamp' - lastTimestamp, frameMsDen,
                        frameMsNum)]_vars

\* While body b stays dragging, its dragOffset does not change.
C15_OffsetKept(b) ==
  (bodies[b].dragging /\ bodies'[b].dragging) =>
    /\ bodies'[b].dragOffsetX = bodies[b].dragOffsetX
    /\ bodies'[b].dragOffsetY = bodies[b].dragOffsetY

\* A pointer-move leaves the dragging body b at the move's pointer position
\* (the one doDrag has stored in lastPointerPos of the body it acts on) minus
\* b's dragOffset.
C15_FollowsPointer(b) ==
  (lastOp'.op = "move" /\ lastOp'.active # Null /\ bodies[b].dragging) =>
    /\ bodies'[b].x =
         bodies'[lastOp'.active].lastPointerPos.x - bodies[b].dragOffsetX
    /\ bodies'[b].y =
         bodies'[lastOp'.active].lastPointerPos.y - bodies[b].dragOffsetY

\* C15: from the pointer-down that starts the drag of a body to the
\* pointer-up that ends it, the body's dragOffset keeps the value captured at
\* that pointer-down, and every pointer-move in between leaves the body at
\* the move's pointer position minus that offset, whatever frames and further
\* pointer-downs come in between.  (Violated: after a pointer-down on a
\* second body the moves act on that body only and the first one stays where
\* it was; a further pointer-down on the body itself captures a new offset.)
C15_OffsetFixedDuringDrag ==
  [][\A b \in Bodies : C15_OffsetKept(b) /\ C15_FollowsPointer(b)]_vars

\* vy of body b after gravity has been added in a step.
C16_AfterGravity(b) ==
  bodies[b].vy + MulFrac(lastOp'.dt, gravityNum, gravityDen)

\* C16: a step applies both the top and the bottom correction to a free body
\* only if the viewport is less tall than the body; it then leaves the body at
\* y = viewportHeight - height with vy reflected twice,
\* vy' = BOUNCE * BOUNCE * (vy + GRAVITY * dt), and vx multiplied by FRICTION,
\* and raises no fault.  In a viewport at least as tall as the body a step
\* reflects vy at most once.
C16_DoubleCorrection ==
  [][lastOp'.op = "step" =>
       \A b \in Bodies :
         ~bodies[b].dragging =>
           /\ (hits'[b].top /\ hits'[b].bottom) =>
                /\ Px(innerHeight) < bodies[b].height
                /\ bodies'[b].y = Px(innerHeight) - bodies[b].height
                /\ bodies'[b].vy =
                     MulFrac(0 - MulFrac(0 - C16_AfterGravity(b),
                                         bounceNum, bounceDen),
                             bounceNum, bounceDen)
                /\ bodies'[b].vx =
                     MulFrac(C8_AfterWalls(b), frictionNum, frictionDen)
                /\ ~fault'
           /\ Px(innerHeight) >= bodies[b].height =>
                /\ ~(hits'[b].top /\ hits'[b].bottom)
                /\ bodies'[b].vy =
                     IF hits'[b].top \/ hits'[b].bottom
                       THEN MulFrac(0 - C16_AfterGravity(b),
                                    bounceNum, bounceDen)
                       ELSE C16_AfterGravity(b)]_vars

\* In a viewport less tall than a body, a step with dt > 0 has applied both
\* corrections to a free body and left it moving in both directions.
C16_Witness ==
  /\ lastOp.op = "step"
  /\ lastOp.dt > 0
  /\ \E b \in Bodies :
       /\ ~bodies[b].dragging
       /\ Px(innerHeight) < bodies[b].height
       /\ hits[b].top
       /\ hits[b].bottom
       /\ bodies[b].y = Px(innerHeight) - bodies[b].height
       /\ bodies[b].vy > 0
       /\ bodies[b].vx # 0

\* The bodies whose record the step changes.
C17_Modified == { b \in Bodies : bodies'[b] # bodies[b] }

\* C17: whatever the interleaving of pointer events and frames, a
\* pointer-move or a pointer-up changes fields of at most one body, and only
\* of a body that is dragging when the event arrives; the record of every
\* body with dragging = false is left as it was.
C17_ExclusiveOwnership ==
  [][(lastOp'.op = "move" \/ lastOp'.op = "up") =>
       /\ Cardinality(C17_Modified) <= 1
       /\ \A b \in C17_Modified : bodies[b].dragging
       /\ \A b \in Bodies : ~bodies[b].dragging => bodies'[b] = bodies[b]]_vars

\* A pointer-move has moved the active body while a second body was dragging
\* too, in a run in which a frame has been interleaved with the pointer events.
C17_Witness ==
  /\ lastOp.op = "move"
  /\ lastOp.active # Null
  /\ bodies[lastOp.active].vxPointer # 0
  /\ lastTimestamp # Null
  /\ \E b \in Bodies : b # lastOp.active /\ bodies[b].dragging

\* C18: the animation loop never stops: init requests one frame and every
\* call of step requests exactly one more, so that in every state after init
\* exactly one frame callback is pending, whatever the drag state and the
\* number of bodies, zero included.
C18_OneFramePending == rafPending = 1

\* On a page of no icon, a second frame has run and the next one is pending.
C18_Witness ==
  /\ DOMAIN bodies = {}
  /\ lastOp.op = "step"
  /\ lastOp.dt > 0
  /\ rafPending = 1

\* C19: activeBody and the dragging flags agree in every reachable state:
\* activeBody is not null if and only if some body has dragging = true, and
\* every body that has dragging = true is the one activeBody refers to.
\* (Violated: a pointer-down on a second body leaves the first one flagged,
\* and the pointer-up that follows sets activeBody to null while it still is.)
C19_ActiveBodyAgreesWithFlags ==
  /\ activeBody # Null <=> Dragging # {}
  /\ \A b \in Bodies : bodies[b].dragging => activeBody = b

\* C20: right after every call of step the translation written to the element
\* of each body is that body's (x, y), for a dragging body as for a free one;
\* pointer-down, pointer-move and pointer-up do not write the element, so
\* that the displayed position of a dragged body changes at the next frame
\* only.
C20_TransformWrittenByStepOnly ==
  [][/\ lastOp'.op = "step" =>
          \A b \in Bodies :
            elTransform'[b] = <<bodies'[b].x, bodies'[b].y>>
     /\ (lastOp'.op = "down" \/ lastOp'.op = "move" \/ lastOp'.op = "up") =>
          elTransform' = elTransform]_vars

\* A step has written the position of a body that is dragging and has
\* followed the pointer since the pointer-down.
C20_Witness ==
  /\ lastOp.op = "step"
  /\ \E b \in Bodies :
       /\ bodies[b].dragging
       /\ Len(samples[b]) = 2
       /\ bodies[b].x = samples[b][2].x - bodies[b].dragOffsetX
       /\ bodies[b].x # samples[b][1].x - bodies[b].dragOffsetX
       /\ elTransform[b] = <<bodies[b].x, bodies[b].y>>

====
